---- MODULE Spec2Model ----
(***************************************************************************)
(* The parking-lot backend of src/index.js: an Express application whose   *)
(* handlers share one Prisma store of parking lots and their slots.        *)
(*                                                                         *)
(* Every handler is an async function: it runs synchronously up to an      *)
(* `await` of a store call, and other handlers run while it waits.  A      *)
(* handler is therefore modelled as one action per store call, the code    *)
(* that follows the call (up to the next await or the response) being part *)
(* of the same action.                                                     *)
(*                                                                         *)
(* A request field that is absent from the JSON body is `undefined` in the *)
(* handler.  Fields are modelled as options: <<>> is undefined, <<v>> is   *)
(* the value v; <<digits, "string">> is a string of digits.                *)
(***************************************************************************)
EXTENDS Integers, Sequences, FiniteSets, TLC

\* ------------------------------------------------------------------ bounds

\* Largest totalSlots a request carries.
MaxSlots == 2
\* Longest filledSlots / freeSlots list a request carries.
MaxLen == 1
\* Number of facility records the store ever creates (ids 1..MaxLots).
MaxLots == 2

\* The request handlers that can be in flight at the same time.
Procs == {1, 2}

\* Facility names of the requests.
Names == {"A", "B"}

\* Slot numbers the lists of a request mention: 1..MaxSlots, and one number
\* that is a slot of no facility.
SlotNums == 1..(MaxSlots + 1)

\* ------------------------------------------------------- request payloads

Undefined == <<>>
Some(v) == <<v>>

\* A field sent as a string of digits, held as the sequence of its digits.
Str(digits) == <<digits, "string">>

\* The lists a request carries in filledSlots and in freeSlots: up to MaxLen
\* slot numbers, in ascending order.
Lists ==
    {l \in UNION {[1..k -> SlotNums] : k \in 0..MaxLen} :
        \A i \in 1..(Len(l) - 1) : l[i] < l[i + 1]}

\* Array.prototype.includes; on a string of digits String.prototype.includes,
\* which finds the one-digit number n as a character.
includes(list, n) == \E i \in 1..Len(list) : list[i] = n

\* Array.isArray of a body field (a field is a list, a string or absent)
isArray(f) == Len(f) = 1

\* JavaScript truthiness of a string field and of a number field
truthyStr(f) == f # Undefined /\ f[1] # ""
truthyNum(f) == f # Undefined /\ f[1] # 0

\* The fields of req.body of PUT /api/update-parking-lot, as a record.
Body(name, location, latitude, longitude, totalSlots, filledSlots, freeSlots) ==
    [name |-> name, location |-> location, latitude |-> latitude,
     longitude |-> longitude, totalSlots |-> totalSlots,
     filledSlots |-> filledSlots, freeSlots |-> freeSlots]

NoBody ==
    Body(Undefined, Undefined, Undefined, Undefined, Undefined, Undefined, Undefined)

\* Bodies with every field present and truthy, totalSlots in 1..MaxSlots.
WellFormed ==
    {Body(Some(n), Some("L1"), Some(12), Some(77), Some(t), Some(f), Some(g)) :
        n \in Names, t \in 1..MaxSlots, f \in Lists, g \in Lists}

Fields ==
    {"name", "location", "latitude", "longitude", "totalSlots", "filledSlots",
     "freeSlots"}

\* A well-formed body (of any filledSlots, and an empty freeSlots) with one
\* field left out, or one number sent as 0, or filledSlots sent as the
\* string "1".
Malformed ==
    LET base == {b \in WellFormed : b.freeSlots = Some(<<>>)}
    IN  {[b EXCEPT ![k] = Undefined] : b \in base, k \in Fields}
        \cup {[b EXCEPT ![k] = Some(0)] :
                b \in base, k \in {"latitude", "longitude", "totalSlots"}}
        \cup {[b EXCEPT !.filledSlots = Str(<<1>>)] : b \in base}

\* The request bodies of the one-request-at-a-time specification.
Bodies == WellFormed \cup Malformed

\* The slot numbers the lists of a body mention.
mentioned(b) ==
    {n \in SlotNums :
        \/ (b.filledSlots # Undefined /\ includes(b.filledSlots[1], n))
        \/ (b.freeSlots # Undefined /\ includes(b.freeSlots[1], n))}

\* The request bodies of the concurrent specification: one facility name,
\* every field present, every list.
RaceBodies ==
    {b \in WellFormed :
        /\ b.name = Some("A")
        /\ b.totalSlots = Some(MaxSlots)
        /\ mentioned(b) \subseteq 1..MaxSlots}

\* ------------------------------------------------------------------ state

VARIABLES
    lots,      \* the ParkingLot table: a set of records
    slots,     \* the Slot table: a set of records
    nextId,    \* the next autoincrement id of the ParkingLot table
    pc,        \* per handler: the await it is suspended at, or "idle"
    req,       \* per handler: the body (or params) of the request in flight
    local,     \* per handler: its `parkingLot` variable (with updatedSlots)
    resp,      \* the response the last step sent (NoResp when it sent none)
    missed     \* history: per handler, the assignments <<slot number, flag>>
               \* of the reconcile writes that committed on its facility
               \* since its findFirst

vars == <<lots, slots, nextId, pc, req, local, resp, missed>>

NoLocal == [id |-> 0, slots |-> {}]
NoResp == [proc |-> 0, route |-> "none", status |-> 0, body |-> <<>>]
Response(p, route, status) ==
    [proc |-> p, route |-> route, status |-> status, body |-> <<>>]

\* The slots of the facility with id `id` (include: { slots: true }).
slotsOf(id) == {s \in slots : s.parkingLotId = id}

Init ==
    /\ lots = {}
    /\ slots = {}
    /\ nextId = 1
    /\ pc = [p \in Procs |-> "idle"]
    /\ req = [p \in Procs |-> NoBody]
    /\ local = [p \in Procs |-> NoLocal]
    /\ resp = NoResp
    /\ missed = [p \in Procs |-> {}]

\* ------------------------------------------------------- store primitives

\* Mutant of findFirst: the name filter is dropped for every request.
findFirst_NoFilter(name) == lots

\* prisma.parkingLot.findFirst({ where: { name } }): the records the filter
\* matches.  Prisma drops a filter whose value is undefined, so an absent
\* name matches every record.  The call returns one of the matches (no
\* orderBy is given), or null when there is none.
findFirst(name) == {l \in lots : name = Undefined \/ l.name = name}

\* Array.from({ length: totalSlots }, ...): ToLength of the length.
ToLength(totalSlots) ==
    IF totalSlots = Undefined \/ totalSlots[1] < 0 THEN 0 ELSE totalSlots[1]

\* Mutant of newSlots: slots numbered from the index, 0..totalSlots-1.
newSlots_ZeroBased(id, b) ==
    {[id |-> <<id, index>>,
      parkingLotId |-> id,
      slotNumber |-> index,
      status |-> IF includes(b.filledSlots[1], index + 1) THEN TRUE ELSE FALSE] :
        index \in 0..(ToLength(b.totalSlots) - 1)}

\* Mutant of newSlots: the flag looked up by the index, not the slot number.
newSlots_IndexListed(id, b) ==
    {[id |-> <<id, index>>,
      parkingLotId |-> id,
      slotNumber |-> index + 1,
      status |-> IF includes(b.filledSlots[1], index) THEN TRUE ELSE FALSE] :
        index \in 0..(ToLength(b.totalSlots) - 1)}

\* The nested create of lines 136-141: slot index + 1, filled iff listed.
newSlots(id, b) ==
    {[id |-> <<id, index>>,
      parkingLotId |-> id,
      slotNumber |-> index + 1,
      status |-> IF includes(b.filledSlots[1], index + 1) THEN TRUE ELSE FALSE] :
        index \in 0..(ToLength(b.totalSlots) - 1)}

\* The record prisma.parkingLot.create stores (lines 130-135).
newLot(id, b) ==
    [id |-> id, name |-> b.name, location |-> b.location,
     latitude |-> b.latitude, longitude |-> b.longitude,
     totalSlots |-> b.totalSlots]

\* Mutant of invalid: the check of freeSlots forgotten.
invalid_FreeUnchecked(b) ==
    \/ ~truthyStr(b.name)
    \/ ~truthyStr(b.location)
    \/ ~truthyNum(b.latitude)
    \/ ~truthyNum(b.longitude)
    \/ ~truthyNum(b.totalSlots)
    \/ ~isArray(b.filledSlots)

\* The check of line 124.
invalid(b) ==
    \/ ~truthyStr(b.name)
    \/ ~truthyStr(b.location)
    \/ ~truthyNum(b.latitude)
    \/ ~truthyNum(b.longitude)
    \/ ~truthyNum(b.totalSlots)
    \/ ~isArray(b.filledSlots)
    \/ ~isArray(b.freeSlots)

\* Mutant of mapSlot: freeSlots looked up before filledSlots.
mapSlot_FreeFirst(slot, b) ==
    IF b.freeSlots # Undefined /\ includes(b.freeSlots[1], slot.slotNumber)
    THEN [slot EXCEPT !.status = FALSE]
    ELSE IF includes(b.filledSlots[1], slot.slotNumber)
         THEN [slot EXCEPT !.status = TRUE]
         ELSE slot

\* The callback of parkingLot.slots.map (lines 153-160) on one slot.
mapSlot(slot, b) ==
    IF includes(b.filledSlots[1], slot.slotNumber)
    THEN [slot EXCEPT !.status = TRUE]
    ELSE IF includes(b.freeSlots[1], slot.slotNumber)
         THEN [slot EXCEPT !.status = FALSE]
         ELSE slot

\* The callback throws a TypeError when it calls .includes on undefined:
\* filledSlots on any slot, freeSlots on a slot that filledSlots does not list.
mapThrows(own, b) ==
    \E slot \in own :
        \/ b.filledSlots = Undefined
        \/ (~includes(b.filledSlots[1], slot.slotNumber) /\ b.freeSlots = Undefined)

updatedSlots(own, b) == {mapSlot(slot, b) : slot \in own}

\* Mutant of updateMany: a slot that is occupied in the store is left alone.
updateMany_SkipOccupied(id, updated) ==
    {IF s.parkingLotId = id /\ ~s.status /\ (\E u \in updated : u.id = s.id)
     THEN [s EXCEPT !.status = (CHOOSE u \in updated : u.id = s.id).status]
     ELSE s : s \in slots}

\* Mutant of updateMany: the batch stops after its first statement, the one
\* for the lowest slot number.
updateMany_FirstOnly(id, updated) ==
    {IF s.parkingLotId = id
        /\ (\E u \in updated : u.id = s.id)
        /\ (\A v \in updated : v.slotNumber >= s.slotNumber)
     THEN [s EXCEPT !.status = (CHOOSE u \in updated : u.id = s.id).status]
     ELSE s : s \in slots}

\* The nested updateMany of lines 163-173: each entry sets the status of the
\* slot of facility `id` that has the entry's id.
updateMany(id, updated) ==
    {IF s.parkingLotId = id /\ \E u \in updated : u.id = s.id
     THEN [s EXCEPT !.status = (CHOOSE u \in updated : u.id = s.id).status]
     ELSE s : s \in slots}

\* The flag a body assigns to a slot number it mentions: filledSlots first.
assigned(b, n) == includes(b.filledSlots[1], n)

\* History: a reconcile write of handler p committed on facility id.
noteWrite(p, id) ==
    [q \in Procs |->
        IF q # p /\ pc[q] = "put_update" /\ local[q].id = id
        THEN {a \in missed[q] : a[1] \notin mentioned(req[p])}
             \cup {<<n, assigned(req[p], n)>> : n \in mentioned(req[p])}
        ELSE missed[q]]

respond(p, r) ==
    /\ pc' = [pc EXCEPT ![p] = "idle"]
    /\ req' = [req EXCEPT ![p] = NoBody]
    /\ local' = [local EXCEPT ![p] = NoLocal]
    /\ resp' = r

suspend(p, at, b, l) ==
    /\ pc' = [pc EXCEPT ![p] = at]
    /\ req' = [req EXCEPT ![p] = b]
    /\ local' = [local EXCEPT ![p] = l]
    /\ resp' = NoResp

\* ------------------------------------------- PUT /api/update-parking-lot

\* The handler up to its second await: findFirst, then either the 400, the
\* suspension at create, or the map over the slots and the suspension at
\* update.
PutFind(p, b) ==
    /\ pc[p] = "idle"
    /\ missed' = [missed EXCEPT ![p] = {}]
    /\ UNCHANGED <<lots, slots, nextId>>
    /\ IF findFirst(b.name) = {}
       THEN IF invalid(b)
            THEN respond(p, Response(p, "put", 400))
            ELSE suspend(p, "put_create", b, NoLocal)
       ELSE \E parkingLot \in findFirst(b.name) :
               IF mapThrows(slotsOf(parkingLot.id), b)
               THEN respond(p, Response(p, "put", 500))
               ELSE suspend(p, "put_update", b,
                            [id |-> parkingLot.id,
                             slots |-> updatedSlots(slotsOf(parkingLot.id), b)])

\* prisma.parkingLot.create commits; the handler answers 201.
PutCreate(p) ==
    /\ pc[p] = "put_create"
    /\ nextId <= MaxLots
    /\ lots' = lots \cup {newLot(nextId, req[p])}
    /\ slots' = slots \cup newSlots(nextId, req[p])
    /\ nextId' = nextId + 1
    /\ respond(p, Response(p, "put", 201))
    /\ UNCHANGED missed

\* Mutant of PutUpdate: when the record is gone the slots of the snapshot are
\* written back and the request is answered 200.
PutUpdate_Upsert(p) ==
    /\ pc[p] = "put_update"
    /\ UNCHANGED <<lots, nextId>>
    /\ IF \E l \in lots : l.id = local[p].id
       THEN /\ slots' = updateMany(local[p].id, local[p].slots)
            /\ missed' = noteWrite(p, local[p].id)
       ELSE /\ slots' = slots \cup local[p].slots
            /\ UNCHANGED missed
    /\ respond(p, Response(p, "put", 200))

\* Mutant of PutUpdate: the update also writes the totalSlots of the request.
PutUpdate_Resize(p) ==
    /\ pc[p] = "put_update"
    /\ UNCHANGED nextId
    /\ IF \E l \in lots : l.id = local[p].id
       THEN /\ lots' = {IF l.id = local[p].id
                        THEN [l EXCEPT !.totalSlots = req[p].totalSlots]
                        ELSE l : l \in lots}
            /\ slots' = updateMany(local[p].id, local[p].slots)
            /\ missed' = noteWrite(p, local[p].id)
            /\ respond(p, Response(p, "put", 200))
       ELSE /\ UNCHANGED <<lots, slots, missed>>
            /\ respond(p, Response(p, "put", 500))

\* prisma.parkingLot.update commits, or fails because the record is gone;
\* the handler answers 200, or 500 from its catch.
PutUpdate(p) ==
    /\ pc[p] = "put_update"
    /\ UNCHANGED <<lots, nextId>>
    /\ IF \E l \in lots : l.id = local[p].id
       THEN /\ slots' = updateMany(local[p].id, local[p].slots)
            /\ missed' = noteWrite(p, local[p].id)
            /\ respond(p, Response(p, "put", 200))
       ELSE /\ UNCHANGED <<slots, missed>>
            /\ respond(p, Response(p, "put", 500))

\* ------------------------------------------ DELETE /api/parking-lots/:name

\* prisma.parkingLot.delete({ where: { id } }) on the store: the record goes,
\* and its slots go with it.
deleteLot(id) == {l \in lots : l.id # id}
deleteSlots(id) == {s \in slots : s.parkingLotId # id}

\* The handler up to its second await: findFirst by the path parameter, then
\* the 404 or the suspension at delete.
DelFind(p, name) ==
    /\ pc[p] = "idle"
    /\ missed' = [missed EXCEPT ![p] = {}]
    /\ UNCHANGED <<lots, slots, nextId>>
    /\ IF findFirst(Some(name)) = {}
       THEN respond(p, Response(p, "delete", 404))
       ELSE \E parkingLot \in findFirst(Some(name)) :
               suspend(p, "del_delete", [NoBody EXCEPT !.name = Some(name)],
                       [id |-> parkingLot.id, slots |-> {}])

\* prisma.parkingLot.delete commits, or fails because the record is gone.
DelDelete(p) ==
    /\ pc[p] = "del_delete"
    /\ UNCHANGED <<nextId, missed>>
    /\ IF \E l \in lots : l.id = local[p].id
       THEN /\ lots' = deleteLot(local[p].id)
            /\ slots' = deleteSlots(local[p].id)
            /\ respond(p, Response(p, "delete", 200))
       ELSE /\ UNCHANGED <<lots, slots>>
            /\ respond(p, Response(p, "delete", 500))

\* ------------------------------------------------- POST /api/lot-details

\* Mutant of detailsFilledSlots: the slots of every facility are counted.
detailsFilledSlots_AllLots(parkingLot) ==
    Cardinality({slot \in slots : ~slot.status})

\* The counters of lines 76-79.
detailsTotalSlots(parkingLot) == Cardinality(slotsOf(parkingLot.id))
detailsFilledSlots(parkingLot) ==
    Cardinality({slot \in slotsOf(parkingLot.id) : ~slot.status})
detailsAvailableSlots(parkingLot) ==
    detailsTotalSlots(parkingLot) - detailsFilledSlots(parkingLot)

\* responseData of lines 82-89 (the distance, which no counter depends on,
\* is left out).
responseData(parkingLot) ==
    [parkingLotName |-> parkingLot.name,
     totalSlots |-> detailsTotalSlots(parkingLot),
     availableSlots |-> detailsAvailableSlots(parkingLot),
     filledSlots |-> detailsFilledSlots(parkingLot)]

\* The whole handler: it has one await, the findFirst.
LotDetails(p, parkingLotName) ==
    /\ pc[p] = "idle"
    /\ missed' = [missed EXCEPT ![p] = {}]
    /\ UNCHANGED <<lots, slots, nextId>>
    /\ IF findFirst(parkingLotName) = {}
       THEN respond(p, Response(p, "details", 404))
       ELSE \E parkingLot \in findFirst(parkingLotName) :
               respond(p, [proc |-> p, route |-> "details", status |-> 200,
                           body |-> <<responseData(parkingLot)>>])

\* ---------------------------------------------------- GET /api/parking-lots

\* findMany({ include: { slots: true } }): every facility with its slots.
\* The handler has one await and writes nothing.
ParkingLots(p) ==
    /\ pc[p] = "idle"
    /\ missed' = [missed EXCEPT ![p] = {}]
    /\ UNCHANGED <<lots, slots, nextId>>
    /\ respond(p, [proc |-> p, route |-> "list", status |-> 200,
                   body |-> <<{<<l, slotsOf(l.id)>> : l \in lots}>>])

\* -------------------------------------------- POST /api/nearby-parking-lots

\* Coordinates a request can carry: absent, zero, and points around the
\* stored facilities.
UserLats == {Undefined} \cup {Some(n) : n \in 0..3}
UserLons == {Undefined} \cup {Some(n) : n \in 0..2}

\* Reconcile bodies that place facilities at two latitudes.
NearbyBodies ==
    {Body(Some(n), Some("L1"), Some(lat), Some(1), Some(1), Some(f), Some(<<>>)) :
        n \in Names, lat \in {1, 3}, f \in {l \in Lists : Len(l) = 0 \/ l = <<1>>}}

Abs(x) == IF x < 0 THEN -x ELSE x

\* calculateDistanceInKM: a given function of the two coordinate pairs.
\* Coordinates are points of a grid whose step is 5 km and the distance is
\* measured along the grid, so that distances of 0, 5, 10 and 15 occur.
calculateDistanceInKM(lat1, lon1, lat2, lon2) ==
    5 * (Abs(lat1 - lat2) + Abs(lon1 - lon2))

\* The filter of lines 50-53.
nearbyParkingLots(userLat, userLon) ==
    {lot \in lots :
        calculateDistanceInKM(userLat[1], userLon[1],
                              lot.latitude[1], lot.longitude[1]) <= 10}

\* The whole handler: the check of line 43 comes first, then the one await
\* (findMany), the filter and the response.
Nearby(p, userLat, userLon) ==
    /\ pc[p] = "idle"
    /\ missed' = [missed EXCEPT ![p] = {}]
    /\ UNCHANGED <<lots, slots, nextId>>
    /\ IF ~truthyNum(userLat) \/ ~truthyNum(userLon)
       THEN respond(p, Response(p, "nearby", 400))
       ELSE respond(p, [proc |-> p, route |-> "nearby", status |-> 200,
                        body |-> <<nearbyParkingLots(userLat, userLon)>>])

\* --------------------------------------------------------- specifications

\* Two handlers in flight, each suspended at its awaits while the other
\* runs; reconcile requests for one facility name.
Next ==
    \E p \in Procs :
        \/ \E b \in RaceBodies : PutFind(p, b)
        \/ PutCreate(p)
        \/ PutUpdate(p)
        \/ DelFind(p, "A")
        \/ DelDelete(p)
        \/ LotDetails(p, Some("A"))

Spec == Init /\ [][Next]_vars

\* One request at a time, each run from its first line to its response,
\* over every request body.
SeqNext ==
    \/ \E b \in Bodies : PutFind(1, b)
    \/ PutCreate(1)
    \/ PutUpdate(1)
    \/ \E name \in Names : DelFind(1, name)
    \/ DelDelete(1)
    \/ \E name \in {Undefined} \cup {Some(n) : n \in Names} : LotDetails(1, name)

SeqSpec == Init /\ [][SeqNext]_vars

\* One request at a time over facilities at different places, with the two
\* read-only queries.
QueryNext ==
    \/ \E b \in NearbyBodies : PutFind(1, b)
    \/ PutCreate(1)
    \/ PutUpdate(1)
    \/ \E name \in Names : DelFind(1, name)
    \/ DelDelete(1)
    \/ ParkingLots(1)
    \/ \E userLat \in UserLats, userLon \in UserLons : Nearby(1, userLat, userLon)

QuerySpec == Init /\ [][QueryNext]_vars

\* Reconcile bodies for either name over one-slot facilities.
IsoBodies ==
    {b \in WellFormed : b.totalSlots = Some(1) /\ mentioned(b) \subseteq {1}}

\* Two handlers in flight, each on either name.
IsoNext ==
    \E p \in Procs :
        \/ \E b \in IsoBodies : PutFind(p, b)
        \/ PutCreate(p)
        \/ PutUpdate(p)
        \/ \E name \in Names : DelFind(p, name)
        \/ DelDelete(p)

IsoSpec == Init /\ [][IsoNext]_vars

\* ------------------------------------------------------------------ claims

\* The flag of the slot with id `id` in a Slot table.
flagIn(table, id) == (CHOOSE s \in table : s.id = id).status

\* Handler p's step is the commit of its update on a facility still stored.
commitsUpdate(p) ==
    /\ pc[p] = "put_update"
    /\ pc'[p] = "idle"
    /\ \E l \in lots : l.id = local[p].id

\* C1: two reconcile requests on one existing facility that mention disjoint
\* slot numbers both take effect, whatever the order of their findFirst and
\* update: when the later update commits, every slot its request mentions
\* holds the flag it assigns, every slot mentioned by a request that committed
\* since its findFirst holds the flag that request assigned, and every other
\* slot holds the flag it had.
C1_NoLostUpdate ==
    [][\A p \in Procs :
        (commitsUpdate(p)
         /\ {a[1] : a \in missed[p]} \cap mentioned(req[p]) = {})
        => \A s \in slotsOf(local[p].id) :
              /\ \E t \in slots' : t.id = s.id
              /\ flagIn(slots', s.id) =
                    IF s.slotNumber \in mentioned(req[p])
                    THEN assigned(req[p], s.slotNumber)
                    ELSE IF \E a \in missed[p] : a[1] = s.slotNumber
                         THEN (CHOOSE a \in missed[p] : a[1] = s.slotNumber)[2]
                         ELSE s.status]_vars

\* C2: lot-details reports, for every stored facility, totalSlots = the number
\* of its slots, filledSlots = the number of its slots whose flag is true
\* (occupied) and availableSlots = the number of its slots whose flag is false.
C2_DetailsCountOccupied ==
    \A parkingLot \in lots :
        LET own == slotsOf(parkingLot.id)
            data == responseData(parkingLot)
        IN  /\ data.totalSlots = Cardinality(own)
            /\ data.filledSlots = Cardinality({s \in own : s.status})
            /\ data.availableSlots = Cardinality({s \in own : ~s.status})

\* C3: the store never holds two facility records with one name.
C3_OneFacilityPerName ==
    \A l1 \in lots : \A l2 \in lots : l1.name = l2.name => l1 = l2

\* C4: every stored facility has one slot for each number of
\* 1..totalSlots (its declared totalSlots), and no other slot: no gap, no
\* number twice.
C4_SlotNumbersExact ==
    \A l \in lots :
        /\ {s.slotNumber : s \in slotsOf(l.id)} = 1..l.totalSlots[1]
        /\ Cardinality(slotsOf(l.id)) = l.totalSlots[1]

\* C4 witness: a facility created after an earlier one was deleted, holding
\* MaxSlots slots, right after a reconcile update of it.
C4_Witness ==
    /\ resp = Response(1, "put", 200)
    /\ \E l \in lots :
          /\ l.id > 1
          /\ l.totalSlots = Some(MaxSlots)
          /\ \A k \in lots : k.id >= l.id

\* C5: the counters lot-details returns for a stored facility satisfy
\* availableSlots + filledSlots = totalSlots, with neither negative.
C5_CountersAddUp ==
    \A parkingLot \in lots :
        LET data == responseData(parkingLot)
        IN  /\ data.availableSlots + data.filledSlots = data.totalSlots
            /\ data.availableSlots >= 0
            /\ data.filledSlots >= 0

\* C5 witness: lot-details has answered for a facility with slots of both
\* flags while a second facility with slots is stored.
C5_Witness ==
    /\ resp.route = "details"
    /\ resp.status = 200
    /\ resp.body[1].availableSlots > 0
    /\ resp.body[1].filledSlots > 0
    /\ Cardinality({l \in lots : slotsOf(l.id) # {}}) = 2

\* Handler p's step is the commit of its create.
commitsCreate(p) == pc[p] = "put_create" /\ pc'[p] = "idle"

C7_UpdateRule ==
    [][\A p \in Procs :
        commitsUpdate(p)
        => LET b == req[p]
           IN  \A s \in slotsOf(local[p].id) :
                  /\ \E t \in slots' : t.id = s.id
                  /\ flagIn(slots', s.id) =
                        IF includes(b.filledSlots[1], s.slotNumber) THEN TRUE
                        ELSE IF b.freeSlots # Undefined
                                /\ includes(b.freeSlots[1], s.slotNumber)
                             THEN FALSE
                             ELSE s.status]_vars

\* C7 witness: the handler has mapped a request that lists a free slot in
\* both lists (the slot is occupied in its updatedSlots, free in the store)
\* and is about to write.
C7_Witness ==
    /\ pc[1] = "put_update"
    /\ \E s \in slotsOf(local[1].id) :
          /\ ~s.status
          /\ includes(req[1].filledSlots[1], s.slotNumber)
          /\ req[1].freeSlots # Undefined
          /\ includes(req[1].freeSlots[1], s.slotNumber)
          /\ flagIn(local[1].slots, s.id)

\* The slots of a table without their flags.
shape(table) ==
    {[id |-> s.id, parkingLotId |-> s.parkingLotId, slotNumber |-> s.slotNumber] :
        s \in table}

\* C8: a reconcile request on an existing facility changes no facility
\* record, adds no slot and removes none, whatever its totalSlots; its update
\* is answered 200, and when its lists name no number of 1..totalSlots of the
\* facility every flag stays as it was.
C8_UpdateFrame ==
    [][\A p \in Procs :
        /\ (pc[p] = "idle" /\ pc'[p] = "put_update")
           => (lots' = lots /\ slots' = slots)
        /\ commitsUpdate(p)
           => /\ lots' = lots
              /\ shape(slots') = shape(slots)
              /\ resp' = Response(p, "put", 200)
              /\ (\A l \in lots :
                    l.id = local[p].id
                    => mentioned(req[p]) \cap 1..l.totalSlots[1] = {})
                 => slots' = slots]_vars

\* C8 witness: a request that carries a totalSlots other than the facility's
\* and lists only a number that is no slot of the facility is about to write,
\* the facility having an occupied slot.
C8_Witness ==
    /\ pc[1] = "put_update"
    /\ \E l \in lots :
          /\ l.id = local[1].id
          /\ req[1].totalSlots # l.totalSlots
          /\ mentioned(req[1]) # {}
          /\ mentioned(req[1]) \cap 1..l.totalSlots[1] = {}
          /\ \E s \in slotsOf(l.id) : s.status

\* C9: a reconcile update with filledSlots = [] and freeSlots = [] on a
\* facility that is stored is answered 200 and its write changes no slot,
\* also when another reconcile committed since its findFirst.
C9_EmptyListsNoOp ==
    [][\A p \in Procs :
        (commitsUpdate(p)
         /\ req[p].filledSlots = Some(<<>>)
         /\ req[p].freeSlots = Some(<<>>))
        => (resp' = Response(p, "put", 200) /\ slots' = slots)]_vars

\* A field of the body is missing, or one of its lists is no list.
missingField(b) ==
    \/ \E k \in Fields : b[k] = Undefined
    \/ ~isArray(b.filledSlots)
    \/ ~isArray(b.freeSlots)

zeroSlots(b) ==
    /\ b.totalSlots = Some(0)
    /\ truthyStr(b.name) /\ truthyStr(b.location)
    /\ truthyNum(b.latitude) /\ truthyNum(b.longitude)
    /\ isArray(b.filledSlots) /\ isArray(b.freeSlots)

\* C11: a reconcile request for an unseen name with totalSlots = 0 and every
\* other field present and valid is not answered 400: the handler goes on to
\* the create, whose facility has no slots.
C11_ZeroSlotsAccepted ==
    [][\/ pc[1] # "idle"
       \/ \A b \in {c \in Bodies : zeroSlots(c)} :
             (findFirst(b.name) = {} /\ PutFind(1, b))
                => /\ pc'[1] = "put_create"
                   /\ resp' # Response(1, "put", 400)
                   /\ newSlots(nextId, b) = {}]_vars

\* The facilities of a store that carry a name.
named(table, name) == {l \in table : l.name = name}

deletes(p) ==
    pc[p] = "del_delete" /\ pc'[p] = "idle" /\ resp'.status = 200

\* C12: when a delete for a name is answered 200 the store holds no facility
\* of that name and none of its slots; while no facility has the name, a
\* delete or a lot-details for it is answered 404 and the store is unchanged;
\* and a name that is absent comes back only by the create of a reconcile
\* request for it.
C12_DeleteThenNotFound ==
    [][\A p \in Procs :
          /\ deletes(p)
                => /\ named(lots', req[p].name) = {}
                   /\ {s \in slots' : s.parkingLotId = local[p].id} = {}
          /\ \A n \in Names :
                (pc[p] = "idle" /\ named(lots, Some(n)) = {})
                   => /\ DelFind(p, n)
                         => /\ resp' = Response(p, "delete", 404)
                            /\ UNCHANGED <<lots, slots, nextId>>
                      /\ LotDetails(p, Some(n))
                         => resp' = Response(p, "details", 404)
          /\ \A n \in Names :
                (named(lots, Some(n)) = {} /\ named(lots', Some(n)) # {})
                   => \E q \in Procs :
                         commitsCreate(q) /\ req[q].name = Some(n)]_vars

finishesUpdate(p) == pc[p] = "put_update" /\ pc'[p] = "idle"

\* C13: the store write of a reconcile update either persists the flag of
\* every slot the request computed and is answered 200, or is answered 500
\* and changes no slot: no step writes a part of the batch.
C13_UpdateAllOrNothing ==
    [][\A p \in Procs :
          finishesUpdate(p)
             => \/ /\ resp' = Response(p, "put", 200)
                   /\ \A u \in local[p].slots :
                         \E s \in slots' : s.id = u.id /\ s.status = u.status
                   /\ lots' = lots
                \/ /\ resp' = Response(p, "put", 500)
                   /\ slots' = slots
                   /\ lots' = lots]_vars

\* C13 witness: an update that assigned two slots has been answered 200 and
\* both assignments are in the store (seen by the other handler, which is
\* still suspended at its own write).
C13_Witness ==
    /\ resp.route = "put" /\ resp.status = 200
    /\ \E q \in Procs :
          /\ q # resp.proc
          /\ pc[q] = "put_update"
          /\ Cardinality(missed[q]) = 2
          /\ \A a \in missed[q] :
                flagIn(slots, <<local[q].id, a[1] - 1>>) = a[2]

\* C14: whatever the other reconcile request of the same facility read or
\* wrote before, the write of a request leaves every slot the request lists
\* with the flag the request assigns to it; so a slot that two requests list
\* ends with the flag of the one whose write commits last.
C14_LastWriterWins ==
    [][\A p \in Procs :
          commitsUpdate(p)
             => \A n \in mentioned(req[p]) \cap 1..MaxSlots :
                   flagIn(slots', <<local[p].id, n - 1>>)
                      = assigned(req[p], n)]_vars

\* C14 witness: the other request has committed a flag for a slot that this
\* request, suspended at its write, lists with the opposite flag.
C14_Witness ==
    \E p \in Procs :
        /\ pc[p] = "put_update"
        /\ \E l \in lots : l.id = local[p].id
        /\ \E a \in missed[p] :
              /\ a[1] \in mentioned(req[p])
              /\ a[2] # assigned(req[p], a[1])
              /\ flagIn(slots, <<local[p].id, a[1] - 1>>) = a[2]

\* The numeric coordinates among those a request can carry.
numeric(coords) == coords \ {Undefined}

\* C15: for every numeric user coordinate pair, zero included, and every
\* store, the nearby query answers with exactly the stored facilities whose
\* distance to the user is at most 10 km.
C15_NearbyExact ==
    [][\/ pc[1] # "idle"
       \/ \A userLat \in numeric(UserLats), userLon \in numeric(UserLons) :
             Nearby(1, userLat, userLon)
                => /\ resp'.route = "nearby"
                   /\ resp'.status = 200
                   /\ resp'.body = <<nearbyParkingLots(userLat, userLon)>>]_vars

\* C16: the nearby query is answered 400 exactly when userLat or userLon is
\* absent from the request, and it never changes the store.
C16_RejectedIffAbsent ==
    [][\/ pc[1] # "idle"
       \/ \A userLat \in UserLats, userLon \in UserLons :
             Nearby(1, userLat, userLon)
                => /\ (resp'.status = 400)
                         <=> (userLat = Undefined \/ userLon = Undefined)
                   /\ UNCHANGED <<lots, slots, nextId>>]_vars

\* The store write (or its failure) of the request handler p is running.
writes(p) ==
    pc[p] \in {"put_create", "put_update", "del_delete"} /\ pc'[p] = "idle"

\* C17: the store write of a reconcile or delete request for a name leaves
\* every facility of another name in the store with all its slots and flags
\* as they were, and adds no facility of another name; the lookups write
\* nothing. This holds with another request in flight on any name.
C17_OtherNamesUntouched ==
    [][/\ \A p \in Procs :
             writes(p)
                => /\ {l \in lots : l.name # req[p].name}
                         = {l \in lots' : l.name # req[p].name}
                   /\ \A l \in lots :
                         l.name # req[p].name
                            => slotsOf(l.id)
                                  = {s \in slots' : s.parkingLotId = l.id}
       /\ (\A p \in Procs : ~writes(p)) => (lots' = lots /\ slots' = slots)]_vars

\* C17 witness: a reconcile of one name is about to change a flag of its
\* facility while a delete of the other name's facility is in flight and
\* both facilities are in the store.
C17_Witness ==
    \E p \in Procs, q \in Procs :
        /\ pc[p] = "put_update" /\ pc[q] = "del_delete"
        /\ req[p].name # req[q].name
        /\ \E l \in lots : l.id = local[p].id /\ l.name = req[p].name
        /\ \E l \in lots : l.id = local[q].id /\ l.name = req[q].name
        /\ local[p].slots # slotsOf(local[p].id)

\* Every slot in the store belongs to a facility in the store.
NoOrphans == \A s \in slots : \E l \in lots : l.id = s.parkingLotId

\* C18: no reachable store holds a slot without its facility; and when the
\* facility a reconcile request looked up has been deleted before the
\* request's write, the write is answered 500 and brings back neither the
\* facility nor a slot.
C18_NoResurrection ==
    /\ []NoOrphans
    /\ [][\A p \in Procs :
             (finishesUpdate(p) /\ ~ \E l \in lots : l.id = local[p].id)
                => /\ resp' = Response(p, "put", 500)
                   /\ lots' = lots
                   /\ slots' = slots]_vars

\* C18 witness: a reconcile update has been answered 500 after a delete
\* emptied the store under it.
C18_Witness ==
    /\ resp.route = "put" /\ resp.status = 500
    /\ lots = {} /\ slots = {}
    /\ nextId > 1

\* C19: a reconcile request whose filledSlots is not a list, on a facility
\* that exists and has a slot, is answered 500 (not 400, and not 200) by the
\* handler's first run to a response, and lots and slots stay as they were;
\* it never reaches the store write.
C19_NoShapeCheck ==
    [][LET failed ==
              /\ resp' = Response(1, "put", 500)
              /\ pc'[1] = "idle"
              /\ lots' = lots
              /\ slots' = slots
           made == IF req'[1] = NoBody THEN Bodies ELSE {req'[1]}
       IN  /\ \/ failed
              \/ pc[1] # "idle"
              \/ \A b \in made :
                    ~ /\ ~isArray(b.filledSlots)
                      /\ \E l \in findFirst(b.name) : slotsOf(l.id) # {}
                      /\ PutFind(1, b)
           /\ finishesUpdate(1) => isArray(req[1].filledSlots)]_vars

====
